---- MODULE Spec2Model ----
(***************************************************************************)
(* Allocator benchmark of examples/07-custom-allocator (benchmark.cpp).   *)
(*                                                                         *)
(* run_benchmark() calls seven workloads one after another, collects one  *)
(* BenchmarkResult per workload, prints one row per result and then the   *)
(* totals.  The C allocator (malloc / realloc / free) is the environment: *)
(* every malloc or realloc either succeeds or returns the null pointer,   *)
(* and a successful realloc either resizes in place or moves the block.   *)
(*                                                                         *)
(* Conventions                                                             *)
(*   - a pointer is a natural number, 0 is the null pointer; addresses are *)
(*     interchangeable, so a fresh block gets the least address not live;  *)
(*   - the clock is read in whole microseconds and never runs backwards;   *)
(*   - a double is a record [kind, num, den]: a reduced fraction num/den,  *)
(*     or +infinity, or NaN (rounding is not modelled);                    *)
(*   - operator new (std::vector, std::string) is taken to succeed.        *)
(***************************************************************************)
EXTENDS Integers, Sequences, FiniteSets

\* ------------------------------------------------------------------ bounds
\* largest value of `iterations` explored (the program fixes it to 10000)
MaxIterations == 11
\* largest clock reading, in microseconds
MaxClock == 2
\* most null returns the allocator gives within one workload
MaxFailures == 2

\* ------------------------------------------------------------- arithmetic
RECURSIVE GCD(_, _)
GCD(a, b) == IF b = 0 THEN a ELSE GCD(b, a % b)

\* a finite double, as a reduced fraction
Fin(n, d) == LET g == GCD(n, d)
             IN  IF n = 0 THEN [kind |-> "fin", num |-> 0, den |-> 1]
                          ELSE [kind |-> "fin", num |-> n \div g, den |-> d \div g]
PosInf == [kind |-> "inf", num |-> 0, den |-> 1]
NaN    == [kind |-> "nan", num |-> 0, den |-> 1]

\* IEEE-754 double operations on non-negative operands
DblAdd(x, y) ==
    IF x.kind = "nan" \/ y.kind = "nan" THEN NaN
    ELSE IF x.kind = "inf" \/ y.kind = "inf" THEN PosInf
    ELSE Fin(x.num * y.den + y.num * x.den, x.den * y.den)

DblDiv(x, y) ==
    IF x.kind = "nan" \/ y.kind = "nan" THEN NaN
    ELSE IF x.kind = "inf" THEN (IF y.kind = "inf" THEN NaN ELSE PosInf)
    ELSE IF y.kind = "inf" THEN Fin(0, 1)
    ELSE IF y.num = 0 THEN (IF x.num = 0 THEN NaN ELSE PosInf)
    ELSE Fin(x.num * y.den, x.den * y.num)

DblMul(x, y) ==
    IF x.kind = "nan" \/ y.kind = "nan" THEN NaN
    ELSE IF x.kind = "inf" \/ y.kind = "inf"
         THEN (IF (x.kind = "fin" /\ x.num = 0) \/ (y.kind = "fin" /\ y.num = 0)
               THEN NaN ELSE PosInf)
    ELSE Fin(x.num * y.num, x.den * y.den)

\* size_t -> double
ToDouble(n) == Fin(n, 1)

\* ------------------------------------------------------------------ state
VARIABLES
    pc,            \* position in run_benchmark: "call", "body", "report", "done"
    wl,            \* 1..7: the workload being called / running; 8: all returned
    iterations,    \* run_benchmark: const size_t iterations
    results,       \* run_benchmark: std::vector<BenchmarkResult> results
    out,           \* what was written to std::cout: rows, then the totals
    total_time,    \* run_benchmark: double total_time
    total_ops,     \* run_benchmark: size_t total_ops
    count,         \* the workload's parameter
    i,             \* the workload's first loop index
    j,             \* number of steps done by the workload's second loop
    ptrs,          \* std::vector<void*> ptrs
    ptr,           \* benchmark_reallocations: void* ptr
    strings,       \* benchmark_string_operations: std::vector<std::string>
    vec,           \* benchmark_container_growth: std::vector<int>
    timer,         \* Timer::start_ of the running workload
    now,           \* the clock
    live,          \* allocator: addresses of the blocks currently allocated
    badFree,       \* allocator: frees of an address that is neither null nor live
    mallocLog,     \* allocator: the malloc calls of the workload, [size, ret]
    freeLog,       \* allocator: the arguments of the workload's free calls
    reallocCount,  \* allocator: number of realloc calls of the workload
    lastRealloc,   \* allocator: the latest realloc call, [arg, size, ret]
    failures,      \* allocator: null returns given within the workload
    reallocFailed  \* allocator: some realloc of this run returned null

runVars   == <<iterations, results, out, total_time, total_ops>>
localVars == <<count, i, j, ptrs, ptr, strings, vec, timer>>
heapVars  == <<live, badFree, mallocLog, freeLog, reallocCount, lastRealloc,
               failures, reallocFailed>>
vars == <<pc, wl, runVars, localVars, now, heapVars>>

NoCall == [arg |-> 0, size |-> 0, ret |-> 0]

\* -------------------------------------------------------------- allocator
\* the address a successful allocation returns
Fresh(lv) == CHOOSE a \in 1..(Cardinality(lv) + 1) :
                 a \notin lv /\ \A b \in 1..(a - 1) : b \in lv

\* malloc(size): ret = 0 is the failure outcome
Malloc(size, ret) ==
    /\ \/ ret = Fresh(live) /\ live' = live \cup {ret} /\ failures' = failures
       \/ ret = 0 /\ failures < MaxFailures
                  /\ live' = live /\ failures' = failures + 1
    /\ mallocLog' = Append(mallocLog, [size |-> size, ret |-> ret])

\* realloc(p, size): null and the old block untouched, or the block resized
\* in place, or a new block and the old one released; realloc(NULL, size)
\* allocates
Realloc(p, size, ret) ==
    /\ \/ /\ ret = 0 /\ failures < MaxFailures
          /\ live' = live /\ failures' = failures + 1
          /\ reallocFailed' = TRUE
       \/ /\ p # 0 /\ ret = p
          /\ UNCHANGED <<live, failures, reallocFailed>>
       \/ /\ ret = Fresh(live)
          /\ live' = (live \ {p}) \cup {ret}
          /\ UNCHANGED <<failures, reallocFailed>>
    /\ reallocCount' = reallocCount + 1
    /\ lastRealloc' = [arg |-> p, size |-> size, ret |-> ret]

\* free(p): free(NULL) does nothing
Free(p) ==
    /\ live' = live \ {p}
    /\ badFree' = IF p # 0 /\ p \notin live THEN badFree + 1 ELSE badFree
    /\ freeLog' = Append(freeLog, p)

\* the allocator's record starts afresh with each workload
NewLog ==
    /\ mallocLog' = <<>>
    /\ freeLog' = <<>>
    /\ reallocCount' = 0
    /\ lastRealloc' = NoCall
    /\ failures' = 0

\* ------------------------------------------------------------------ Timer
\* Timer(): start_ = now()
TimerStart == timer' = now

\* elapsed_ms(): reads the clock (end) and returns the microseconds since
\* start_ divided by 1000.0
elapsed_ms(start, end) == DblDiv(ToDouble(end - start), ToDouble(1000))

\* -------------------------------------------------------- BenchmarkResult
BenchmarkResult(name, duration, operations) ==
    [name |-> name, duration_ms |-> duration, operations |-> operations]

\* double ops_per_second() const
ops_per_second(r) ==
    DblMul(DblDiv(ToDouble(r.operations), r.duration_ms), ToDouble(1000))

\* ------------------------------------------------------------ run_benchmark
\* mutant: the large workload is given the full count
workload_count_mutant(w, iter) == iter

\* the argument run_benchmark passes to workload w (1 small, 2 medium,
\* 3 large, 4 mixed, 5 reallocations, 6 strings, 7 growth)
workload_count(w, iter) == IF w = 3 THEN iter \div 10 ELSE iter

\* run_benchmark calls workload w: the parameter and the workload's locals
\* come into being, the Timer is constructed
Enter(w) ==
    /\ pc = "call" /\ wl = w
    /\ pc' = "body"
    /\ count' = workload_count(w, iterations)
    /\ TimerStart
    /\ i' = 0 /\ j' = 0
    /\ ptrs' = <<>> /\ ptr' = 0 /\ strings' = <<>> /\ vec' = <<>>
    /\ NewLog
    /\ UNCHANGED <<wl, runVars, now, live, badFree, reallocFailed>>

\* the workload returns {name, timer.elapsed_ms(), operations} and
\* run_benchmark pushes it onto results
Return(w, name, operations) ==
    /\ pc = "body" /\ wl = w
    /\ \E t \in now..MaxClock :
          /\ now' = t
          /\ results' = Append(results,
                            BenchmarkResult(name, elapsed_ms(timer, t), operations))
    /\ pc' = "call" /\ wl' = w + 1
    /\ UNCHANGED <<iterations, out, total_time, total_ops, localVars, heapVars>>

\* ------------------------------------- small / medium / large allocations
\* one iteration of "for (i < count) ptrs.push_back(malloc(size))"
AllocateStep(w, size) ==
    /\ pc = "body" /\ wl = w
    /\ i < count
    /\ \E ret \in {0, Fresh(live)} :
          /\ Malloc(size, ret)
          /\ ptrs' = Append(ptrs, ret)
    /\ i' = i + 1
    /\ UNCHANGED <<pc, wl, runVars, count, j, ptr, strings, vec, timer, now,
                   badFree, freeLog, reallocCount, lastRealloc, reallocFailed>>

\* one iteration of "for (auto ptr : ptrs) free(ptr)"
DeallocateStep(w) ==
    /\ pc = "body" /\ wl = w
    /\ i = count /\ j < Len(ptrs)
    /\ Free(ptrs[j + 1])
    /\ j' = j + 1
    /\ UNCHANGED <<pc, wl, runVars, count, i, ptrs, ptr, strings, vec, timer, now,
                   mallocLog, reallocCount, lastRealloc, failures, reallocFailed>>

small_operations(c)  == c * 2
medium_operations(c) == c * 2
large_operations(c)  == c * 2

small_begin      == Enter(1)
small_allocate   == AllocateStep(1, 64)
small_deallocate == DeallocateStep(1)
small_return     == /\ i = count /\ j = Len(ptrs)
                    /\ Return(1, "Small allocations (64 bytes)", small_operations(count))

medium_begin      == Enter(2)
medium_allocate   == AllocateStep(2, 1024)
medium_deallocate == DeallocateStep(2)
medium_return     == /\ i = count /\ j = Len(ptrs)
                     /\ Return(2, "Medium allocations (1KB)", medium_operations(count))

large_begin      == Enter(3)
large_allocate   == AllocateStep(3, 1024 * 1024)
large_deallocate == DeallocateStep(3)
large_return     == /\ i = count /\ j = Len(ptrs)
                    /\ Return(3, "Large allocations (1MB)", large_operations(count))

\* ------------------------------------------------------------ mixed sizes
sizes == <<16, 32, 64, 128, 256, 512, 1024, 2048, 4096, 8192>>

\* size_t size = sizes[i % 10]
mixed_size(k) == sizes[(k % 10) + 1]

\* mutant: the pointers are freed front to back
mixed_free_ptr_mutant(ps, k) == ps[k + 1]

\* the pointer the reverse iterator yields after k steps (rbegin() + k)
mixed_free_ptr(ps, k) == ps[Len(ps) - k]

\* mutant: only the allocations are counted
mixed_operations_mutant(c) == c

mixed_operations(c) == c * 2

mixed_begin    == Enter(4)
mixed_allocate == AllocateStep(4, mixed_size(i))
mixed_deallocate ==
    /\ pc = "body" /\ wl = 4
    /\ i = count /\ j < Len(ptrs)
    /\ Free(mixed_free_ptr(ptrs, j))
    /\ j' = j + 1
    /\ UNCHANGED <<pc, wl, runVars, count, i, ptrs, ptr, strings, vec, timer, now,
                   mallocLog, reallocCount, lastRealloc, failures, reallocFailed>>
mixed_return   == /\ i = count /\ j = Len(ptrs)
                  /\ Return(4, "Mixed size allocations", mixed_operations(count))

\* ---------------------------------------------------------- reallocations
\* mutant: the resize asks for 64 * i bytes
realloc_size_mutant(k) == 64 * k

\* the size of the i-th resize: 64 * (i + 1)
realloc_size(k) == 64 * (k + 1)

realloc_operations(c) == c

realloc_begin == Enter(5)

\* void* ptr = malloc(64); the loop starts at i = 1
realloc_malloc ==
    /\ pc = "body" /\ wl = 5
    /\ i = 0
    /\ \E ret \in {0, Fresh(live)} :
          /\ Malloc(64, ret)
          /\ ptr' = ret
    /\ i' = 1
    /\ UNCHANGED <<pc, wl, runVars, count, j, ptrs, strings, vec, timer, now,
                   badFree, freeLog, reallocCount, lastRealloc, reallocFailed>>

\* one iteration of "for (i = 1; i < count) ptr = realloc(ptr, 64 * (i + 1))"
realloc_step ==
    /\ pc = "body" /\ wl = 5
    /\ i >= 1 /\ i < count
    /\ \E ret \in {0, ptr, Fresh(live)} :
          /\ Realloc(ptr, realloc_size(i), ret)
          /\ ptr' = ret
    /\ i' = i + 1
    /\ UNCHANGED <<pc, wl, runVars, count, j, ptrs, strings, vec, timer, now,
                   badFree, mallocLog, freeLog>>

\* free(ptr)
realloc_free ==
    /\ pc = "body" /\ wl = 5
    /\ i >= 1 /\ ~(i < count) /\ j = 0
    /\ Free(ptr)
    /\ j' = 1
    /\ UNCHANGED <<pc, wl, runVars, count, i, ptrs, ptr, strings, vec, timer, now,
                   mallocLog, reallocCount, lastRealloc, failures, reallocFailed>>

realloc_return == /\ i >= 1 /\ j = 1
                  /\ Return(5, "Reallocations", realloc_operations(count))

\* ------------------------------------------------------ string operations
\* number of decimal digits of k, the length of std::to_string(k)
RECURSIVE Digits(_)
Digits(k) == IF k < 10 THEN 1 ELSE 1 + Digits(k \div 10)

\* "This is a test string number " + std::to_string(k)
test_string(k) == [number |-> k, size |-> 29 + Digits(k), reserved |-> 0]

\* str += " - modified"; str.reserve(str.size() + 100)
modify_string(str) ==
    LET appended == str.size + 11
    IN  [number |-> str.number, size |-> appended, reserved |-> appended + 100]

string_operations(c) == c * 3

string_begin == Enter(6)

\* one iteration of the loop that fills `strings`
string_push ==
    /\ pc = "body" /\ wl = 6
    /\ i < count
    /\ strings' = Append(strings, test_string(i))
    /\ i' = i + 1
    /\ UNCHANGED <<pc, wl, runVars, count, j, ptrs, ptr, vec, timer, now, heapVars>>

\* one iteration of "for (auto& str : strings)"
string_modify ==
    /\ pc = "body" /\ wl = 6
    /\ i = count /\ j < Len(strings)
    /\ strings' = [strings EXCEPT ![j + 1] = modify_string(strings[j + 1])]
    /\ j' = j + 1
    /\ UNCHANGED <<pc, wl, runVars, count, i, ptrs, ptr, vec, timer, now, heapVars>>

\* strings.clear(); return ...
string_return ==
    /\ pc = "body" /\ wl = 6
    /\ i = count /\ j = Len(strings)
    /\ \E t \in now..MaxClock :
          /\ now' = t
          /\ results' = Append(results,
                 BenchmarkResult("String operations", elapsed_ms(timer, t),
                                 string_operations(count)))
    /\ strings' = <<>>
    /\ pc' = "call" /\ wl' = 7
    /\ UNCHANGED <<iterations, out, total_time, total_ops,
                   count, i, j, ptrs, ptr, vec, timer, heapVars>>

\* ------------------------------------------------------- container growth
growth_operations(c) == c

growth_begin == Enter(7)

\* one iteration of "vec.push_back(static_cast<int>(i))"
growth_push ==
    /\ pc = "body" /\ wl = 7
    /\ i < count
    /\ vec' = Append(vec, i)
    /\ i' = i + 1
    /\ UNCHANGED <<pc, wl, runVars, count, j, ptrs, ptr, strings, timer, now, heapVars>>

growth_return == /\ i = count
                 /\ Return(7, "Vector growth", growth_operations(count))

\* ---------------------------------------------------------------- report
\* print_result(result): name, duration_ms and ops_per_second()
print_result(r) ==
    [kind |-> "row", name |-> r.name, duration_ms |-> r.duration_ms,
     ops_per_second |-> ops_per_second(r)]

\* total_time += result.duration_ms
add_time(total, r) == DblAdd(total, r.duration_ms)

\* mutant: the total is overwritten instead of added to
add_ops_mutant(total, r) == r.operations

\* total_ops += result.operations
add_ops(total, r) == total + r.operations

\* (total_ops / total_time) * 1000.0
average(ops, time) == DblMul(DblDiv(ToDouble(ops), time), ToDouble(1000))

\* "Results:" header; the workloads' locals are gone, i and j now count
\* the steps of the two loops over `results`
print_header ==
    /\ pc = "call" /\ wl = 8
    /\ pc' = "report"
    /\ i' = 0 /\ j' = 0
    /\ count' = 0 /\ ptrs' = <<>> /\ ptr' = 0 /\ strings' = <<>> /\ vec' = <<>>
    /\ timer' = 0
    /\ NewLog
    /\ UNCHANGED <<wl, runVars, now, live, badFree, reallocFailed>>

\* one iteration of "for (result : results) print_result(result)"
print_row ==
    /\ pc = "report"
    /\ i < Len(results)
    /\ out' = Append(out, print_result(results[i + 1]))
    /\ i' = i + 1
    /\ UNCHANGED <<pc, wl, iterations, results, total_time, total_ops,
                   count, j, ptrs, ptr, strings, vec, timer, now, heapVars>>

\* one iteration of the loop that sums the results
accumulate ==
    /\ pc = "report"
    /\ i = Len(results) /\ j < Len(results)
    /\ total_time' = add_time(total_time, results[j + 1])
    /\ total_ops' = add_ops(total_ops, results[j + 1])
    /\ j' = j + 1
    /\ UNCHANGED <<pc, wl, iterations, results, out,
                   count, i, ptrs, ptr, strings, vec, timer, now, heapVars>>

\* "Total:" with Time, Operations and Average
print_total ==
    /\ pc = "report"
    /\ i = Len(results) /\ j = Len(results)
    /\ out' = Append(out, [kind |-> "total", time |-> total_time,
                           operations |-> total_ops,
                           average |-> average(total_ops, total_time)])
    /\ pc' = "done"
    /\ UNCHANGED <<wl, iterations, results, total_time, total_ops,
                   localVars, now, heapVars>>

\* ------------------------------------------------------------ specification
Init ==
    /\ pc = "call" /\ wl = 1
    /\ iterations \in 0..MaxIterations
    /\ results = <<>> /\ out = <<>>
    /\ total_time = Fin(0, 1) /\ total_ops = 0
    /\ count = 0 /\ i = 0 /\ j = 0
    /\ ptrs = <<>> /\ ptr = 0 /\ strings = <<>> /\ vec = <<>>
    /\ timer = 0 /\ now = 0
    /\ live = {} /\ badFree = 0
    /\ mallocLog = <<>> /\ freeLog = <<>>
    /\ reallocCount = 0 /\ lastRealloc = NoCall
    /\ failures = 0 /\ reallocFailed = FALSE

Next ==
    \/ small_begin \/ small_allocate \/ small_deallocate \/ small_return
    \/ medium_begin \/ medium_allocate \/ medium_deallocate \/ medium_return
    \/ large_begin \/ large_allocate \/ large_deallocate \/ large_return
    \/ mixed_begin \/ mixed_allocate \/ mixed_deallocate \/ mixed_return
    \/ realloc_begin \/ realloc_malloc \/ realloc_step \/ realloc_free
    \/ realloc_return
    \/ string_begin \/ string_push \/ string_modify \/ string_return
    \/ growth_begin \/ growth_push \/ growth_return
    \/ print_header \/ print_row \/ accumulate \/ print_total

Spec == Init /\ [][Next]_vars

\* ================================================================ properties
\* workload k has just returned to run_benchmark: its result is results[k],
\* its locals and the allocator's record of it are still in place
Returned(k) == pc = "call" /\ wl = k + 1

\* workload k is running or has just returned
Running(k) == (pc = "body" /\ wl = k) \/ Returned(k)

\* number of malloc calls of the workload that returned a block
Succeeded == Cardinality({m \in 1..Len(mallocLog) : mallocLog[m].ret # 0})

\* ---------------------------------------------------------------------- C1
\* the operations formula documented for workload k given the count n
Documented(k, n) ==
    CASE k \in {1, 2, 3, 4} -> 2 * n
      [] k \in {5, 7}       -> n
      [] k = 6              -> 3 * n

\* C1: whatever count a workload is given, the `operations` field of the
\* result it returns equals the documented formula of that count: 2N for
\* small, medium, large and mixed sizes, N for reallocations and container
\* growth, 3N for string operations.
C1_OperationsFormula ==
    \A k \in 1..7 : Returned(k) => results[k].operations = Documented(k, count)

C1_Witness ==
    /\ Returned(4) /\ count = 11 /\ results[4].operations = 22
    /\ results[3].operations = 2

\* ---------------------------------------------------------------------- C2
WorkloadNames ==
    << "Small allocations (64 bytes)", "Medium allocations (1KB)",
       "Large allocations (1MB)", "Mixed size allocations", "Reallocations",
       "String operations", "Vector growth" >>

\* the operations run_benchmark collects for base count n, in order
Collected(n) == << 2 * n, 2 * n, 2 * (n \div 10), 2 * n, n, 3 * n, n >>

Guarded(ops, d) == IF d.num = 0 THEN Fin(0, 1) ELSE Fin(ops * 1000 * d.den, d.num)

\* C3: every throughput figure is guarded against a zero duration: a row's
\* ops_per_second is operations / duration_ms * 1000 when duration_ms > 0
\* and 0 when duration_ms = 0, and so is the overall average over
\* total_operations and total_duration.
C3_ZeroDurationGuard ==
    \A k \in 1..Len(out) :
        /\ out[k].kind = "row" =>
              out[k].ops_per_second
                  = Guarded(results[k].operations, results[k].duration_ms)
        /\ out[k].kind = "total" =>
              out[k].average = Guarded(out[k].operations, out[k].time)

\* ---------------------------------------------------------------------- C4
\* C4: in the mixed-sizes workload the i-th request (from 0) asks for the
\* size at index i mod 10 of {16, 32, ..., 8192}; no pointer is freed before
\* all N requests were made; the k-th free (from 0) receives the pointer the
\* (N-1-k)-th allocation returned.
C4_MixedReverseFree ==
    Running(4) =>
        /\ \A m \in 1..Len(mallocLog) :
              mallocLog[m].size
                  = <<16, 32, 64, 128, 256, 512, 1024, 2048, 4096, 8192>>[((m - 1) % 10) + 1]
        /\ Len(mallocLog) <= count
        /\ Len(freeLog) > 0 => Len(mallocLog) = count
        /\ \A k \in 1..Len(freeLog) :
              /\ k <= count
              /\ freeLog[k] = mallocLog[count - (k - 1)].ret
        /\ Returned(4) => Len(mallocLog) = count /\ Len(freeLog) = count

C4_Witness ==
    /\ Returned(4) /\ count = 11 /\ failures = 0
    /\ Len(freeLog) = 11
    /\ freeLog[1] = mallocLog[11].ret /\ freeLog[11] = mallocLog[1].ret
    /\ freeLog[1] # freeLog[11]
    /\ mallocLog[11].size = 16 /\ mallocLog[10].size = 8192

\* ---------------------------------------------------------------------- C5
\* C5: when a raw-allocation workload (small, medium, large, mixed sizes,
\* reallocations) returns, whatever the allocator answered, every block handed
\* out during it has been released exactly once: none is still live and none
\* was released twice.
C5_AllReleased ==
    \A k \in 1..5 : Returned(k) => live = {} /\ badFree = 0

\* ---------------------------------------------------------------------- C6
\* C6: in the small, medium, large and mixed-sizes workloads a null result
\* of malloc is kept out of the deallocation pass: free is never called with
\* the null pointer.
C6_NullNeverFreed ==
    \A k \in 1..4 : Running(k) => \A f \in 1..Len(freeLog) : freeLog[f] # 0

\* ---------------------------------------------------------------------- C7
\* C7: in the small, medium, large and mixed-sizes workloads failed requests
\* do not count: if k of the N requests succeed, operations is 2k.
C7_FailedNotCounted ==
    \A k \in 1..4 : Returned(k) => results[k].operations = 2 * Succeeded

\* ---------------------------------------------------------------------- C8
\* C8: a realloc that returns null aborts the run at that point: no further
\* resize step is issued, no result of the reallocations workload is
\* collected, no later workload runs and nothing is printed.
C8_ReallocFailureFatal ==
    reallocFailed =>
        /\ wl = 5 /\ pc = "body"
        /\ lastRealloc.ret = 0
        /\ Len(results) = 4
        /\ out = <<>>

\* ---------------------------------------------------------------------- C9
RECURSIVE SumOperations(_)
SumOperations(k) ==
    IF k = 0 THEN 0 ELSE SumOperations(k - 1) + results[k].operations

RECURSIVE SumDuration(_)
SumDuration(k) ==
    IF k = 0 THEN Fin(0, 1) ELSE DblAdd(SumDuration(k - 1), results[k].duration_ms)

\* C9: the totals are the sums of operations and of duration_ms over the
\* collected results, accumulated in collection order, and the totals are
\* printed only after every row.
C9_Totals ==
    /\ pc = "report" => /\ total_ops = SumOperations(j)
                        /\ total_time = SumDuration(j)
    /\ \A k \in 1..Len(out) :
          out[k].kind = "total" =>
              /\ k = Len(results) + 1
              /\ \A m \in 1..(k - 1) : out[m].kind = "row"
              /\ out[k].operations = SumOperations(Len(results))
              /\ out[k].time = SumDuration(Len(results))
    /\ pc = "done" => out[Len(out)].kind = "total"

C9_Witness ==
    /\ pc = "done" /\ iterations = 10
    /\ out[8].kind = "total" /\ out[8].operations = 112
    /\ out[8].time = Fin(2, 1000)
    /\ results[1].duration_ms = Fin(1, 1000) /\ results[7].duration_ms = Fin(1, 1000)

\* --------------------------------------------------------------------- C10
\* the pointer the latest allocation call of the reallocations workload gave
Current == IF reallocCount = 0 THEN mallocLog[1].ret ELSE lastRealloc.ret

\* C10: with N >= 1 and every request succeeding, the reallocations workload
\* issues one malloc of 64 bytes, then N-1 reallocs, the step-th asking for
\* 64*(step+1) bytes on the pointer the previous call returned, then one free
\* of the final pointer; with N = 1 there is no resize, operations is 1 and
\* the one block is freed once.
C10_State ==
    (Running(5) /\ count >= 1 /\ failures = 0) =>
        /\ Len(mallocLog) <= 1
        /\ Len(mallocLog) = 1 => mallocLog[1].size = 64 /\ mallocLog[1].ret # 0
        /\ reallocCount > 0 => /\ Len(mallocLog) = 1
                               /\ reallocCount <= count - 1
                               /\ lastRealloc.size = 64 * (reallocCount + 1)
                               /\ lastRealloc.ret # 0
        /\ Len(freeLog) > 0 => /\ reallocCount = count - 1
                               /\ freeLog = <<Current>>
        /\ Returned(5) => /\ Len(mallocLog) = 1
                          /\ reallocCount = count - 1
                          /\ Len(freeLog) = 1
                          /\ results[5].operations = count
                          /\ live = {} /\ badFree = 0

C10_Step ==
    (wl = 5 /\ reallocCount' = reallocCount + 1 /\ failures' = 0 /\ count >= 1) =>
        /\ Len(mallocLog) = 1
        /\ lastRealloc'.arg = Current
        /\ lastRealloc'.size = 64 * (reallocCount' + 1)

C10_ReallocSequence == [](C10_State) /\ [][C10_Step]_vars

C10_Witness ==
    /\ Returned(5) /\ count = 3 /\ failures = 0
    /\ reallocCount = 2
    /\ lastRealloc.size = 192 /\ lastRealloc.arg # lastRealloc.ret
    /\ freeLog = <<lastRealloc.ret>>
    /\ results[5].operations = 3

====
